---- MODULE Spec2Model ----
(***************************************************************************)
(* Model of catalog/resource_sql_table.go: the databricks_sql_table        *)
(* resource.  Text the code transforms (comments, column types) is a       *)
(* sequence of one-character strings; text it only copies is a string.     *)
(* A property key is the sequence of its dot-separated segments.           *)
(* A statement is a record of its keyword and of the values formatted      *)
(* into it.  Where the code joins the keys of a Go map, whose iteration    *)
(* order is unspecified, the joined list is the set of its elements.       *)
(***************************************************************************)
EXTENDS Integers, Sequences, FiniteSets, TLC

VARIABLES
    op,          \* the entry point running: "", "Diff", "BuildCreate", "CustomizeDiff", "Create", "Update", "Delete"
    pc,          \* its position
    ti,          \* the desired SqlTableInfo (DataToStructPointer of d)
    oldti,       \* the previous SqlTableInfo (getTable), or the old side of d.GetChange
    statements,  \* the statement list diff returned / the statement built
    err,         \* the error the entry point returned, "" for nil
    issued,      \* the SQL texts handed to applySql, in order
    applied,     \* those of them that the executor reported as succeeded
    next,        \* updateTable's loop index into statements
    id,          \* d.Id(), "" while unset
    plan,        \* what CustomizeDiff left in the ResourceDiff
    ownerChange, \* d.HasChange("owner") of the running Update
    remoteOwner  \* the owner the last successful Tables.Update of the invocation sent, "" if none

vars == <<op, pc, ti, oldti, statements, err, issued, applied, next, id, plan, ownerChange, remoteOwner>>

(***************************************************************************)
(* Text                                                                    *)
(***************************************************************************)
Upper == <<"A","B","C","D","E","F","G","H","I","J","K","L","M",
           "N","O","P","Q","R","S","T","U","V","W","X","Y","Z">>
Lower == <<"a","b","c","d","e","f","g","h","i","j","k","l","m",
           "n","o","p","q","r","s","t","u","v","w","x","y","z">>

LowerOf == [c \in {Upper[i] : i \in 1..Len(Upper)} |-> Lower[CHOOSE i \in 1..Len(Upper) : Upper[i] = c]]

ToLowerChar(c) == IF c \in DOMAIN LowerOf THEN LowerOf[c] ELSE c

ToLower(s) == [i \in 1..Len(s) |-> ToLowerChar(s[i])]

RECURSIVE ReplaceAll(_, _, _)
ReplaceAll(s, old, new) ==
    IF Len(s) < Len(old) THEN s
    ELSE IF SubSeq(s, 1, Len(old)) = old
         THEN new \o ReplaceAll(SubSeq(s, Len(old) + 1, Len(s)), old, new)
         ELSE <<Head(s)>> \o ReplaceAll(Tail(s), old, new)

BackslashQuote == <<"\\", "'">>
Quote == <<"'">>

\* parseComment without the unescaping of the quotes that arrive escaped
parseCommentEscapeOnly(s) == ReplaceAll(s, Quote, BackslashQuote)

parseComment(s) == ReplaceAll(ReplaceAll(s, BackslashQuote, Quote), Quote, BackslashQuote)

(***************************************************************************)
(* Go maps and slices: nil and empty are different values to               *)
(* reflect.DeepEqual, and alike to len and range.                          *)
(***************************************************************************)
NilMap == [nil |-> TRUE, kv |-> {}]
MakeMap(pairs) == [nil |-> FALSE, kv |-> pairs]
MapKeys(m) == {p[1] : p \in m.kv}
MapHas(m, k) == k \in MapKeys(m)
MapLen(m) == Cardinality(m.kv)

NilSlice == [nil |-> TRUE, elems |-> <<>>]
MakeSlice(s) == [nil |-> FALSE, elems |-> s]

DeepEqual(a, b) == a = b

(***************************************************************************)
(* sqlTableIsManagedProperty                                               *)
(***************************************************************************)
managedProps == {
    <<"clusteringColumns">>,
    <<"delta", "lastCommitTimestamp">>,
    <<"delta", "lastUpdateVersion">>,
    <<"delta", "minReaderVersion">>,
    <<"delta", "minWriterVersion">>,
    <<"delta", "columnMapping", "maxColumnId">>,
    <<"delta", "enableDeletionVectors">>,
    <<"delta", "enableRowTracking">>,
    <<"delta", "feature", "clustering">>,
    <<"delta", "feature", "changeDataFeed">>,
    <<"delta", "feature", "deletionVectors">>,
    <<"delta", "feature", "domainMetadata">>,
    <<"delta", "feature", "liquid">>,
    <<"delta", "feature", "rowTracking">>,
    <<"delta", "feature", "v2Checkpoint">>,
    <<"delta", "feature", "timestampNtz">>,
    <<"delta", "liquid", "clusteringColumns">>,
    <<"delta", "rowTracking", "materializedRowCommitVersionColumnName">>,
    <<"delta", "rowTracking", "materializedRowIdColumnName">>,
    <<"delta", "checkpoint", "writeStatsAsJson">>,
    <<"delta", "checkpoint", "writeStatsAsStruct">>,
    <<"delta", "checkpointPolicy">>,
    <<"view", "catalogAndNamespace", "numParts">>,
    <<"view", "catalogAndNamespace", "part", "0">>,
    <<"view", "catalogAndNamespace", "part", "1">>,
    <<"view", "query", "out", "col", "0">>,
    <<"view", "query", "out", "numCols">>,
    <<"view", "referredTempFunctionsNames">>,
    <<"view", "referredTempViewNames">>,
    <<"view", "sqlConfig", "spark", "sql", "hive", "convertCTAS">>,
    <<"view", "sqlConfig", "spark", "sql", "legacy", "createHiveTableByDefault">>,
    <<"view", "sqlConfig", "spark", "sql", "parquet", "compression", "codec">>,
    <<"view", "sqlConfig", "spark", "sql", "session", "timeZone">>,
    <<"view", "sqlConfig", "spark", "sql", "sources", "commitProtocolClass">>,
    <<"view", "sqlConfig", "spark", "sql", "sources", "default">>,
    <<"view", "sqlConfig", "spark", "sql", "streaming", "stopTimeout">> }

sqlTableIsManagedProperty(key) == key \in managedProps

(***************************************************************************)
(* Names                                                                   *)
(***************************************************************************)
FullName(t) == t.CatalogName \o "." \o t.SchemaName \o "." \o t.Name

\* an identifier between backticks
Backticked(name) == [backticked |-> name]

SQLFullName(t) == <<Backticked(t.CatalogName), Backticked(t.SchemaName), Backticked(t.Name)>>

getWrappedColumnName(ci) == Backticked(ci.Name)

getTableTypeString(t) == IF t.TableType = "VIEW" THEN "VIEW" ELSE "TABLE"

(***************************************************************************)
(* Statements.  Every statement and every clause of the CREATE statement   *)
(* is a Fragment with the fields its format string does not fill left at   *)
(* these defaults.                                                         *)
(***************************************************************************)
NoColumn == [name |-> Backticked(""), type |-> <<>>, notNull |-> FALSE, hasComment |-> FALSE, comment |-> <<>>]

Fragment == [kw |-> "", typestring |-> "", table |-> <<>>, external |-> FALSE,
             names |-> {}, list |-> <<>>, position |-> "", column |-> Backticked(""), to |-> Backticked(""), after |-> "",
             text |-> <<>>, str |-> "", credential |-> Backticked(""), hasCredential |-> FALSE,
             kv |-> {}, keys |-> {}, col |-> NoColumn, cols |-> <<>>]

\* name type[ NOT NULL][ COMMENT '...'], the name between backticks
serializeColumnInfo(col) ==
    [name |-> getWrappedColumnName(col),
     type |-> col.Type,
     notNull |-> ~col.Nullable,
     hasComment |-> col.Comment # <<>>,
     comment |-> IF col.Comment # <<>> THEN parseComment(col.Comment) ELSE <<>>]

serializeColumnInfos(t) == [i \in 1..Len(t.ColumnInfos) |-> serializeColumnInfo(t.ColumnInfos[i])]

\* the 'k'='v' fragments of the keys that are not managed
serializeProperties(t) == {p \in t.Properties.kv : ~sqlTableIsManagedProperty(p[1])}

serializeOptions(t) == {p \in t.Options.kv : ~sqlTableIsManagedProperty(p[1])}

buildLocationStatement(t) ==
    [Fragment EXCEPT !.kw = "LOCATION", !.str = t.StorageLocation,
                     !.hasCredential = (t.StorageCredentialName # ""),
                     !.credential = Backticked(IF t.StorageCredentialName # "" THEN t.StorageCredentialName ELSE "")]

\* the fragment f when the condition holds, nothing otherwise
When(cond, f) == IF cond THEN <<f>> ELSE <<>>

buildTableCreateStatement(t) ==
    LET isView == t.TableType = "VIEW" IN
    <<[Fragment EXCEPT !.kw = "CREATE", !.external = (t.TableType = "EXTERNAL"),
                       !.typestring = getTableTypeString(t), !.table = SQLFullName(t)]>>
    \o When(Len(t.ColumnInfos) > 0, [Fragment EXCEPT !.kw = "(", !.cols = serializeColumnInfos(t)])
    \o When(~isView /\ t.DataSourceFormat # "", [Fragment EXCEPT !.kw = "USING", !.str = t.DataSourceFormat])
    \o When(Len(t.Partitions) > 0, [Fragment EXCEPT !.kw = "PARTITIONED BY", !.list = t.Partitions])
    \o When(Len(t.ClusterKeys.elems) > 0, [Fragment EXCEPT !.kw = "CLUSTER BY", !.list = t.ClusterKeys.elems])
    \o When(t.Comment # <<>>, [Fragment EXCEPT !.kw = "COMMENT", !.text = parseComment(t.Comment)])
    \o When(MapLen(t.Properties) > 0, [Fragment EXCEPT !.kw = "TBLPROPERTIES", !.kv = serializeProperties(t)])
    \o When(MapLen(t.Options) > 0, [Fragment EXCEPT !.kw = "OPTIONS", !.kv = serializeOptions(t)])
    \o (IF ~isView
        THEN When(t.StorageLocation # "", buildLocationStatement(t))
        ELSE <<[Fragment EXCEPT !.kw = "AS", !.str = t.ViewDefinition]>>)
    \o <<[Fragment EXCEPT !.kw = ";"]>>

(***************************************************************************)
(* Column reconciliation                                                   *)
(***************************************************************************)
\* the keys of the name -> column map built from a column list
ColumnNames(cols) == {cols[i].Name : i \in 1..Len(cols)}

Alter(t, typestring, kw) ==
    [Fragment EXCEPT !.kw = kw, !.typestring = typestring, !.table = SQLFullName(t)]

\* addColumnsFrom with the new column itself, not its predecessor, named after AFTER
RECURSIVE addColumnsFromNamingItself(_, _, _, _)
addColumnsFromNamingItself(t, old, typestring, i) ==
    IF i > Len(t.ColumnInfos) THEN <<>>
    ELSE LET newCi == t.ColumnInfos[i]
             stmt == IF i = 1
                     THEN [Alter(t, typestring, "ADD COLUMN") EXCEPT
                               !.col = serializeColumnInfo(newCi), !.position = "FIRST"]
                     ELSE [Alter(t, typestring, "ADD COLUMN") EXCEPT
                               !.col = serializeColumnInfo(newCi), !.position = "AFTER",
                               !.after = t.ColumnInfos[i].Name]
         IN  When(newCi.Name \notin ColumnNames(old.ColumnInfos), stmt)
             \o addColumnsFromNamingItself(t, old, typestring, i + 1)

\* the loop over ti.ColumnInfos from index i on (Go index i - 1)
RECURSIVE addColumnsFrom(_, _, _, _)
addColumnsFrom(t, old, typestring, i) ==
    IF i > Len(t.ColumnInfos) THEN <<>>
    ELSE LET newCi == t.ColumnInfos[i]
             stmt == IF i = 1
                     THEN [Alter(t, typestring, "ADD COLUMN") EXCEPT
                               !.col = serializeColumnInfo(newCi), !.position = "FIRST"]
                     ELSE [Alter(t, typestring, "ADD COLUMN") EXCEPT
                               !.col = serializeColumnInfo(newCi), !.position = "AFTER",
                               !.after = t.ColumnInfos[i - 1].Name]
         IN  When(newCi.Name \notin ColumnNames(old.ColumnInfos), stmt)
             \o addColumnsFrom(t, old, typestring, i + 1)

\* addOrRemoveColumnStatements with every previous column in the DROP list
addOrRemoveColumnStatementsDroppingAll(t, old, stmts, typestring) ==
    LET removeColumnStatements == {Backticked(n) : n \in ColumnNames(old.ColumnInfos)}
    IN  stmts
        \o When(removeColumnStatements # {},
                [Alter(t, typestring, "DROP COLUMN IF EXISTS") EXCEPT !.names = removeColumnStatements])
        \o addColumnsFrom(t, old, typestring, 1)

addOrRemoveColumnStatements(t, old, stmts, typestring) ==
    LET removeColumnStatements ==
            {Backticked(n) : n \in ColumnNames(old.ColumnInfos) \ ColumnNames(t.ColumnInfos)}
    IN  stmts
        \o When(removeColumnStatements # {},
                [Alter(t, typestring, "DROP COLUMN IF EXISTS") EXCEPT !.names = removeColumnStatements])
        \o addColumnsFrom(t, old, typestring, 1)

\* alterColumnsFrom with DROP and SET exchanged
RECURSIVE alterColumnsFromExchanged(_, _, _, _)
alterColumnsFromExchanged(t, old, typestring, i) ==
    IF i > Len(t.ColumnInfos) THEN <<>>
    ELSE LET ci == t.ColumnInfos[i]
             oldCi == old.ColumnInfos[i]
         IN  When(ci.Name # oldCi.Name,
                  [Alter(t, typestring, "RENAME COLUMN") EXCEPT
                       !.column = getWrappedColumnName(oldCi), !.to = getWrappedColumnName(ci)])
             \o When(ci.Comment # oldCi.Comment,
                  [Alter(t, typestring, "ALTER COLUMN COMMENT") EXCEPT
                       !.column = getWrappedColumnName(ci), !.text = parseComment(ci.Comment)])
             \o When(ci.Nullable # oldCi.Nullable,
                  [Alter(t, typestring, IF ci.Nullable THEN "ALTER COLUMN SET NOT NULL"
                                                      ELSE "ALTER COLUMN DROP NOT NULL") EXCEPT
                       !.column = getWrappedColumnName(ci)])
             \o alterColumnsFromExchanged(t, old, typestring, i + 1)

\* the loop over ti.ColumnInfos from index i on (Go index i - 1)
RECURSIVE alterColumnsFrom(_, _, _, _)
alterColumnsFrom(t, old, typestring, i) ==
    IF i > Len(t.ColumnInfos) THEN <<>>
    ELSE LET ci == t.ColumnInfos[i]
             oldCi == old.ColumnInfos[i]
         IN  When(ci.Name # oldCi.Name,
                  [Alter(t, typestring, "RENAME COLUMN") EXCEPT
                       !.column = getWrappedColumnName(oldCi), !.to = getWrappedColumnName(ci)])
             \o When(ci.Comment # oldCi.Comment,
                  [Alter(t, typestring, "ALTER COLUMN COMMENT") EXCEPT
                       !.column = getWrappedColumnName(ci), !.text = parseComment(ci.Comment)])
             \o When(ci.Nullable # oldCi.Nullable,
                  [Alter(t, typestring, IF ci.Nullable THEN "ALTER COLUMN DROP NOT NULL"
                                                      ELSE "ALTER COLUMN SET NOT NULL") EXCEPT
                       !.column = getWrappedColumnName(ci)])
             \o alterColumnsFrom(t, old, typestring, i + 1)

alterExistingColumnStatements(t, old, stmts, typestring) ==
    stmts \o alterColumnsFrom(t, old, typestring, 1)

getStatementsForColumnDiffs(t, old, stmts, typestring) ==
    IF Len(t.ColumnInfos) # Len(old.ColumnInfos)
    THEN addOrRemoveColumnStatements(t, old, stmts, typestring)
    ELSE alterExistingColumnStatements(t, old, stmts, typestring)

(***************************************************************************)
(* diff                                                                    *)
(***************************************************************************)
\* the keys of the previous properties that the desired properties lack
removeProps(t, old) == {k \in MapKeys(old.Properties) : ~MapHas(t.Properties, k)}

\* diffProperties comparing the maps as pointers: two maps are never the same
diffPropertiesByIdentity(t, old, typestring) ==
    IF ~t.Properties.nil \/ ~old.Properties.nil
    THEN When(removeProps(t, old) # {},
              [Alter(t, typestring, "UNSET TBLPROPERTIES IF EXISTS") EXCEPT !.keys = removeProps(t, old)])
         \o <<[Alter(t, typestring, "SET TBLPROPERTIES") EXCEPT !.kv = serializeProperties(t)]>>
    ELSE <<>>

\* diffProperties with SET TBLPROPERTIES ahead of UNSET TBLPROPERTIES
diffPropertiesSetFirst(t, old, typestring) ==
    IF ~DeepEqual(t.Properties, old.Properties)
    THEN <<[Alter(t, typestring, "SET TBLPROPERTIES") EXCEPT !.kv = serializeProperties(t)]>>
         \o When(removeProps(t, old) # {},
              [Alter(t, typestring, "UNSET TBLPROPERTIES IF EXISTS") EXCEPT !.keys = removeProps(t, old)])
    ELSE <<>>

diffProperties(t, old, typestring) ==
    IF ~DeepEqual(t.Properties, old.Properties)
    THEN When(removeProps(t, old) # {},
              [Alter(t, typestring, "UNSET TBLPROPERTIES IF EXISTS") EXCEPT !.keys = removeProps(t, old)])
         \o <<[Alter(t, typestring, "SET TBLPROPERTIES") EXCEPT !.kv = serializeProperties(t)]>>
    ELSE <<>>

diff(t, old) ==
    LET typestring == getTableTypeString(t)
        kind == IF t.TableType = "VIEW"
                THEN When(t.ViewDefinition # old.ViewDefinition,
                          [Alter(t, "VIEW", "AS") EXCEPT !.str = t.ViewDefinition])
                ELSE When(t.StorageLocation # old.StorageLocation,
                          [buildLocationStatement(t) EXCEPT !.kw = "SET LOCATION", !.typestring = "TABLE",
                                                            !.table = SQLFullName(t)])
                     \o When(~DeepEqual(t.ClusterKeys, old.ClusterKeys),
                          [Alter(t, "TABLE", "CLUSTER BY") EXCEPT !.list = t.ClusterKeys.elems])
        common == When(t.Comment # old.Comment,
                       [Fragment EXCEPT !.kw = "COMMENT ON", !.typestring = typestring,
                                        !.table = SQLFullName(t), !.text = parseComment(t.Comment)])
                  \o diffProperties(t, old, typestring)
    IN  getStatementsForColumnDiffs(t, old, kind \o common, typestring)

(***************************************************************************)
(* Validation of column changes at plan time                               *)
(***************************************************************************)
\* the alias table, as pairs <<spelling, type>>
columnTypeAliases == {
    <<<<"i", "n", "t", "e", "g", "e", "r">>, <<"i", "n", "t">>>>,
    <<<<"l", "o", "n", "g">>, <<"b", "i", "g", "i", "n", "t">>>>,
    <<<<"r", "e", "a", "l">>, <<"f", "l", "o", "a", "t">>>>,
    <<<<"s", "h", "o", "r", "t">>, <<"s", "m", "a", "l", "l", "i", "n", "t">>>>,
    <<<<"b", "y", "t", "e">>, <<"t", "i", "n", "y", "i", "n", "t">>>>,
    <<<<"d", "e", "c", "i", "m", "a", "l">>, <<"d", "e", "c", "i", "m", "a", "l", "(", "1", "0", ",", "0", ")">>>>,
    <<<<"d", "e", "c">>, <<"d", "e", "c", "i", "m", "a", "l", "(", "1", "0", ",", "0", ")">>>>,
    <<<<"n", "u", "m", "e", "r", "i", "c">>, <<"d", "e", "c", "i", "m", "a", "l", "(", "1", "0", ",", "0", ")">>>> }

\* getColumnType with the alias table consulted before lower-casing
getColumnTypeCaseSensitive(columnType) ==
    IF \E a \in columnTypeAliases : a[1] = columnType
    THEN (CHOOSE a \in columnTypeAliases : a[1] = columnType)[2]
    ELSE ToLower(columnType)

getColumnType(columnType) ==
    LET caseInsensitiveColumnType == ToLower(columnType) IN
    IF \E a \in columnTypeAliases : a[1] = caseInsensitiveColumnType
    THEN (CHOOSE a \in columnTypeAliases : a[1] = caseInsensitiveColumnType)[2]
    ELSE caseInsensitiveColumnType

TypeChangeError == "changing the 'type' of an existing column is not supported"
MixedChangeError == "detected changes in both number of columns and existing column field values, please do not change number of columns and update column values at the same time"

\* the loop over oldCols from index i on, returning at the first difference
RECURSIVE assertNoColumnTypeDiffFrom(_, _, _)
assertNoColumnTypeDiffFrom(oldCols, newColumnInfos, i) ==
    IF i > Len(oldCols) THEN ""
    ELSE IF getColumnType(oldCols[i].Type) # getColumnType(newColumnInfos[i].Type)
         THEN TypeChangeError
         ELSE assertNoColumnTypeDiffFrom(oldCols, newColumnInfos, i + 1)

assertNoColumnTypeDiff(oldCols, newColumnInfos) == assertNoColumnTypeDiffFrom(oldCols, newColumnInfos, 1)

\* the entry of a name -> column map filled in list order: the last column of that name
ColumnNamed(cols, name) ==
    cols[CHOOSE i \in DOMAIN cols :
            /\ cols[i].Name = name
            /\ \A j \in DOMAIN cols : j > i => cols[j].Name # name]

\* assertNoColumnMembershipAndFieldValueUpdate without the comparison of the comments
assertNoColumnMembershipAndFieldValueUpdateNoComment(oldCols, newColumnInfos) ==
    IF \E name \in ColumnNames(oldCols) \cap ColumnNames(newColumnInfos) :
          LET oldColMap == ColumnNamed(oldCols, name)
              newCol == ColumnNamed(newColumnInfos, name)
          IN  \/ getColumnType(oldColMap.Type) # getColumnType(newCol.Type)
              \/ oldColMap.Nullable # newCol.Nullable
    THEN MixedChangeError
    ELSE ""

assertNoColumnMembershipAndFieldValueUpdate(oldCols, newColumnInfos) ==
    IF \E name \in ColumnNames(oldCols) \cap ColumnNames(newColumnInfos) :
          LET oldColMap == ColumnNamed(oldCols, name)
              newCol == ColumnNamed(newColumnInfos, name)
          IN  \/ getColumnType(oldColMap.Type) # getColumnType(newCol.Type)
              \/ oldColMap.Nullable # newCol.Nullable
              \/ oldColMap.Comment # newCol.Comment
    THEN MixedChangeError
    ELSE ""

columnChangesCustomizeDiff(oldCols, newColumnInfos) ==
    IF Len(oldCols) = Len(newColumnInfos)
    THEN assertNoColumnTypeDiff(oldCols, newColumnInfos)
    ELSE assertNoColumnMembershipAndFieldValueUpdate(oldCols, newColumnInfos)

\* strings.HasPrefix(key, "option."): the first segment is option and a dot follows it
HasOptionPrefix(key) == Len(key) >= 2 /\ key[1] = "option"

\* the new properties after the loop over the old ones
reconcileProperties(oldProps, newProps, options) ==
    MakeMap(newProps.kv \cup
            {p \in oldProps.kv :
                /\ ~MapHas(newProps, p[1])
                /\ \/ MapHas(options, p[1])
                   \/ sqlTableIsManagedProperty(p[1])
                   \/ HasOptionPrefix(p[1])})

NoPlan == [properties |-> NilMap, forceNew |-> {}]

\* the CustomizeDiff function of the resource: <<error, what it set in the diff>>
CustomizeDiffResult(old, new) ==
    LET columnErr == IF old.ColumnInfos # new.ColumnInfos
                     THEN columnChangesCustomizeDiff(old.ColumnInfos, new.ColumnInfos)
                     ELSE ""
    IN  IF columnErr # "" THEN <<columnErr, NoPlan>>
        ELSE <<"",
               [properties |-> IF old.Properties.kv # new.Properties.kv
                               THEN reconcileProperties(old.Properties, new.Properties, old.Options)
                               ELSE new.Properties,
                forceNew |-> IF old.Comment # new.Comment /\ new.TableType = "VIEW"
                             THEN {"comment"} ELSE {}]>>

(***************************************************************************)
(* Bounded inputs                                                          *)
(***************************************************************************)
MaxCols == 2

ColNames == {"a", "b", "c"}

TypeInt == <<"i", "n", "t">>
TypeINTEGER == <<"I", "N", "T", "E", "G", "E", "R">>
TypeString == <<"s", "t", "r", "i", "n", "g">>

NoComment == <<>>
QuotedComment == <<"i", "t", "'", "s">>
Comments == {NoComment, QuotedComment}

Column(name, type, nullable, comment) ==
    [Name |-> name, Type |-> type, Nullable |-> nullable, Comment |-> comment]

\* the column lists over the columns cs with unique names and exactly n columns
RECURSIVE ColumnListsOfLen(_, _)
ColumnListsOfLen(cs, n) ==
    IF n = 0 THEN {<<>>}
    ELSE UNION {{Append(l, c) : c \in {x \in cs : x.Name \notin ColumnNames(l)}} :
                l \in ColumnListsOfLen(cs, n - 1)}

ColumnLists(cs) == UNION {ColumnListsOfLen(cs, n) : n \in 0..MaxCols}

\* the catalog reports a column's type in its normal form; the configuration may spell it otherwise
RemoteColumns == {Column(n, TypeInt, nl, c) : n \in ColNames, nl \in BOOLEAN, c \in Comments}
\* one column in every spelling of its type
TypedColumns == {Column(n, t, nl, c) : n \in ColNames, t \in {TypeInt, TypeINTEGER, TypeString},
                                       nl \in BOOLEAN, c \in Comments}

ManagedKey == <<"delta", "minReaderVersion">>
UserKey == <<"owner", "team">>

\* nil, and every map over the two keys
PropertyMaps ==
    {NilMap} \cup
    {MakeMap(m \cup u) : m \in {{}, {<<ManagedKey, "2">>}},
                        u \in {{}, {<<UserKey, "x">>}, {<<UserKey, "y">>}}}

BaseTable ==
    [Name |-> "t", CatalogName |-> "main", SchemaName |-> "s", TableType |-> "MANAGED",
     DataSourceFormat |-> "DELTA", ColumnInfos |-> <<>>, Partitions |-> <<>>,
     ClusterKeys |-> NilSlice, StorageLocation |-> "", StorageCredentialName |-> "",
     ViewDefinition |-> "", Comment |-> NoComment, Properties |-> NilMap, Options |-> NilMap,
     ClusterID |-> "", WarehouseID |-> "", Owner |-> ""]

BaseView == [BaseTable EXCEPT !.TableType = "VIEW", !.DataSourceFormat = "", !.ViewDefinition = "SELECT 1"]

ViewDefinitions == {"SELECT 1", "SELECT 2"}
Locations == {"", "s3://bucket/t"}
\* a credential goes with a location
LocationsAndCredentials == {<<"", "">>, <<"s3://bucket/t", "">>, <<"s3://bucket/t", "cred">>}
ClusterKeyLists == {NilSlice, MakeSlice(<<"a">>), MakeSlice(<<"b", "a">>)}

OneColumn == <<Column("a", TypeInt, TRUE, NoComment)>>

\* desired descriptions that differ in the attributes of the table itself
DesiredAttributes ==
    {[BaseView EXCEPT !.ViewDefinition = v, !.Comment = c, !.Properties = p, !.ColumnInfos = OneColumn] :
        v \in ViewDefinitions, c \in Comments, p \in PropertyMaps}
    \cup
    {[BaseTable EXCEPT !.TableType = k, !.StorageLocation = lc[1], !.StorageCredentialName = lc[2],
                       !.ClusterKeys = ck, !.Comment = c, !.Properties = p, !.ColumnInfos = OneColumn] :
        k \in {"MANAGED", "EXTERNAL"}, lc \in LocationsAndCredentials, ck \in ClusterKeyLists,
        c \in Comments, p \in PropertyMaps}

\* the previous descriptions of the same kind, in the fields diff reads
PreviousAttributes(t) ==
    IF t.TableType = "VIEW"
    THEN {[BaseView EXCEPT !.ViewDefinition = v, !.Comment = c, !.Properties = p, !.ColumnInfos = OneColumn] :
            v \in ViewDefinitions, c \in Comments, p \in PropertyMaps}
    ELSE {[BaseTable EXCEPT !.TableType = t.TableType, !.StorageLocation = l, !.ClusterKeys = ck,
                            !.Comment = c, !.Properties = p, !.ColumnInfos = OneColumn] :
            l \in Locations, ck \in ClusterKeyLists, c \in Comments, p \in PropertyMaps}

\* descriptions in every combination of the clauses of the CREATE statement
CreateInputs ==
    {[BaseView EXCEPT !.ViewDefinition = v, !.Comment = c, !.Properties = p, !.Options = o,
                      !.ColumnInfos = cols] :
        v \in ViewDefinitions, c \in Comments, p \in PropertyMaps, o \in PropertyMaps,
        cols \in {<<>>, OneColumn}}
    \cup
    {[BaseTable EXCEPT !.TableType = k, !.DataSourceFormat = f,
                       !.StorageLocation = lc[1], !.StorageCredentialName = lc[2],
                       !.ClusterKeys = cp[1], !.Partitions = cp[2],
                       !.Comment = c, !.Properties = p, !.Options = o, !.ColumnInfos = cols] :
        k \in {"MANAGED", "EXTERNAL"}, f \in {"", "DELTA"}, lc \in LocationsAndCredentials,
        cp \in {<<NilSlice, <<>> >>, <<MakeSlice(<<"a">>), <<>> >>, <<NilSlice, <<"a">> >>},
        c \in Comments, p \in PropertyMaps, o \in PropertyMaps, cols \in {<<>>, OneColumn}}

\* columns that differ in their names only
NamedColumns == {Column(n, TypeInt, TRUE, NoComment) : n \in ColNames}

\* a desired description of each kind, with every attribute the diff reads set
AlteredDesired ==
    {[BaseTable EXCEPT !.StorageLocation = "s3://bucket/t", !.ClusterKeys = MakeSlice(<<"a">>),
                       !.Comment = QuotedComment, !.Properties = MakeMap({})],
     [BaseView EXCEPT !.ViewDefinition = "SELECT 2", !.Comment = QuotedComment,
                      !.Properties = MakeMap({})]}

\* the previous descriptions of it: the same or the plain one, with or without a key to remove
AlteredPrevious(t) ==
    {[k EXCEPT !.Properties = p] :
        k \in {t, IF t.TableType = "VIEW" THEN BaseView ELSE BaseTable},
        p \in {t.Properties, NilMap, MakeMap({<<UserKey, "x">>})}}

(***************************************************************************)
(* The diff as a function of its two descriptions                          *)
(***************************************************************************)
Idle ==
    /\ err = "" /\ issued = <<>> /\ applied = <<>> /\ next = 0 /\ id = "" /\ plan = NoPlan
    /\ ownerChange = FALSE /\ remoteOwner = ""

InitDiff ==
    /\ op = "" /\ pc = "ready" /\ statements = <<>> /\ Idle
    /\ \/ /\ ti \in DesiredAttributes
          /\ oldti \in PreviousAttributes(ti)
       \/ /\ ti \in {[BaseTable EXCEPT !.ColumnInfos = l] : l \in ColumnLists(RemoteColumns)}
          /\ oldti \in {[BaseTable EXCEPT !.ColumnInfos = l] : l \in ColumnLists(RemoteColumns)}
       \/ \E k \in {BaseTable, BaseView} :
             /\ ti \in {[k EXCEPT !.ColumnInfos = l] : l \in ColumnListsOfLen(TypedColumns, 1)}
             /\ oldti \in {[k EXCEPT !.ColumnInfos = l] :
                              l \in ColumnListsOfLen(RemoteColumns, 0) \cup ColumnListsOfLen(RemoteColumns, 1)}
       \/ /\ ti \in CreateInputs
          /\ oldti = ti
       \/ /\ ti \in {[d EXCEPT !.Options = o] : d \in DesiredAttributes, o \in PropertyMaps}
          /\ oldti \in {[ti EXCEPT !.Options = o] : o \in PropertyMaps}
       \/ \E d \in AlteredDesired :
             /\ ti \in {[d EXCEPT !.ColumnInfos = l] : l \in ColumnLists(RemoteColumns)}
             /\ oldti \in {[q EXCEPT !.ColumnInfos = l] :
                              q \in AlteredPrevious(d), l \in ColumnLists(NamedColumns)}

Diff ==
    /\ pc = "ready"
    /\ op' = "Diff"
    /\ statements' = diff(ti, oldti)
    /\ pc' = "done"
    /\ UNCHANGED <<ti, oldti, err, issued, applied, next, id, plan, ownerChange, remoteOwner>>

NextDiff == Diff

SpecDiff == InitDiff /\ [][NextDiff]_vars

(***************************************************************************)
(* The CREATE statement as a function of the desired description           *)
(***************************************************************************)
InitCreate ==
    /\ op = "" /\ pc = "ready" /\ statements = <<>> /\ Idle
    /\ ti \in CreateInputs
    /\ oldti = BaseTable

BuildCreate ==
    /\ pc = "ready"
    /\ op' = "BuildCreate"
    /\ statements' = buildTableCreateStatement(ti)
    /\ pc' = "done"
    /\ UNCHANGED <<ti, oldti, err, issued, applied, next, id, plan, ownerChange, remoteOwner>>

NextCreate == BuildCreate

SpecCreate == InitCreate /\ [][NextCreate]_vars

(***************************************************************************)
(* Compute target and statement execution                                  *)
(***************************************************************************)
StartClusterError == "initCluster: StartAndGetInfo failed"
CreateClusterError == "initCluster: GetOrCreateRunningCluster failed"
InitWorkspaceClientError == "initCluster: WorkspaceClient failed"
InitClusterErrors == {StartClusterError, CreateClusterError, InitWorkspaceClientError}

DefaultCluster == "terraform-sql-table"

\* initCluster up to the choice of the target: the pairs <<error, description>> it can reach
resolveTarget(t) ==
    IF t.ClusterID # ""
    THEN {<<"", t>>, <<StartClusterError, t>>,
          \* the cluster of the state is missing: a default cluster replaces it
          <<CreateClusterError, [t EXCEPT !.ClusterID = ""]>>,
          <<StartClusterError, [t EXCEPT !.ClusterID = DefaultCluster]>>,
          <<"", [t EXCEPT !.ClusterID = DefaultCluster]>>}
    ELSE IF t.WarehouseID # ""
    THEN {<<"", t>>}
    ELSE {<<CreateClusterError, [t EXCEPT !.ClusterID = ""]>>,
          <<"", [t EXCEPT !.ClusterID = DefaultCluster]>>}

\* initCluster: every <<error, description>> it can return with
initCluster(t) ==
    {r \in resolveTarget(t) : r[1] # ""}
    \cup {<<InitWorkspaceClientError, r[2]>> : r \in {x \in resolveTarget(t) : x[1] = ""}}
    \cup {r \in resolveTarget(t) : r[1] = ""}

TransportError == "applySql: ExecuteStatement failed"
StatementFailedError == "applySql: statement failed to execute"
CannotExecuteError == "applySql: cannot execute"
ApplySqlErrors == {TransportError, StatementFailedError, CannotExecuteError}

\* applySql: the errors it can return with, "" for nil
applySql(t) ==
    IF t.WarehouseID # ""
    THEN {"", TransportError, StatementFailedError}
    ELSE {"", CannotExecuteError}

Sql(text) == [sql |-> text]

(***************************************************************************)
(* Create, Update and Delete                                               *)
(***************************************************************************)
Targets == {<<"", "">>, <<"cluster-1", "">>, <<"", "warehouse-1">>}
Owners == {"", "alice"}
CurrentUser == "me"

ChangedTable ==
    [BaseTable EXCEPT !.StorageLocation = "s3://bucket/t", !.Comment = QuotedComment,
                      !.Properties = MakeMap({<<UserKey, "x">>}),
                      !.ColumnInfos = <<Column("a", TypeInt, FALSE, NoComment)>>]

Contents == {[BaseTable EXCEPT !.ColumnInfos = OneColumn], ChangedTable,
             [BaseView EXCEPT !.ColumnInfos = OneColumn]}

\* what DataToStructPointer reads from the resource data
Configured ==
    {[c EXCEPT !.ClusterID = tg[1], !.WarehouseID = tg[2], !.Owner = o] :
        c \in Contents, tg \in Targets, o \in Owners}

\* what getTable can return for a table of the same kind
Remote(t) == {c \in Contents : c.TableType = t.TableType}

CreateWorkspaceClientError == "Create: WorkspaceClient failed"
UpdateWorkspaceClientError == "Update: WorkspaceClient failed"
GetTableError == "Update: getTable failed"
TablesUpdateError == "Tables.Update failed"
CurrentUserError == "Update: CurrentUser.Me failed"

InitLife ==
    /\ op = "" /\ pc = "idle" /\ statements = <<>> /\ Idle
    /\ ti = BaseTable /\ oldti = BaseTable

Fail(e) == err' = e /\ pc' = "done"

\* Create up to the return of initCluster
CreateBegin ==
    /\ pc = "idle" /\ id = ""
    /\ op' = "Create"
    /\ \E t \in Configured : \E r \in initCluster(t) :
          /\ ti' = r[2]
          /\ IF r[1] # "" THEN Fail(r[1]) ELSE err' = "" /\ pc' = "createTable"
    /\ UNCHANGED <<oldti, statements, issued, applied, next, id, plan, ownerChange, remoteOwner>>

\* createTable with SetId before the owner is updated
CreateTableSetIdFirst ==
    /\ op = "Create" /\ pc = "createTable"
    /\ statements' = buildTableCreateStatement(ti)
    /\ issued' = Append(issued, Sql(statements'))
    /\ \E e \in applySql(ti) :
          IF e # ""
          THEN Fail(e) /\ UNCHANGED <<applied, id>>
          ELSE /\ applied' = Append(applied, Sql(statements'))
               /\ err' = ""
               /\ id' = FullName(ti)
               /\ pc' = IF ti.Owner # "" THEN "owner" ELSE "done"
    /\ UNCHANGED <<op, ti, oldti, next, plan, ownerChange, remoteOwner>>

\* createTable, and SetId when no owner is configured
CreateTable ==
    /\ op = "Create" /\ pc = "createTable"
    /\ statements' = buildTableCreateStatement(ti)
    /\ issued' = Append(issued, Sql(statements'))
    /\ \E e \in applySql(ti) :
          IF e # ""
          THEN Fail(e) /\ UNCHANGED <<applied, id>>
          ELSE /\ applied' = Append(applied, Sql(statements'))
               /\ err' = ""
               /\ IF ti.Owner # ""
                  THEN pc' = "owner" /\ UNCHANGED id
                  ELSE pc' = "done" /\ id' = FullName(ti)
    /\ UNCHANGED <<op, ti, oldti, next, plan, ownerChange, remoteOwner>>

\* the update of the owner, and SetId
CreateOwner ==
    /\ op = "Create" /\ pc = "owner"
    /\ \/ Fail(CreateWorkspaceClientError) /\ UNCHANGED <<id, remoteOwner>>
       \/ Fail(TablesUpdateError) /\ UNCHANGED <<id, remoteOwner>>
       \/ /\ remoteOwner' = ti.Owner
          /\ id' = FullName(ti)
          /\ err' = "" /\ pc' = "done"
    /\ UNCHANGED <<op, ti, oldti, statements, issued, applied, next, plan, ownerChange>>

\* Update with the previous table fetched and diffed before the target is resolved
UpdateBeginDiffFirst ==
    /\ pc = "idle" /\ id # ""
    /\ op' = "Update"
    /\ \E t \in Configured, hasChange \in BOOLEAN :
          /\ ownerChange' = hasChange
          /\ \/ Fail(UpdateWorkspaceClientError) /\ ti' = t /\ UNCHANGED <<oldti, statements, next>>
             \/ Fail(GetTableError) /\ ti' = t /\ UNCHANGED <<oldti, statements, next>>
             \/ \E o \in Remote(t) : \E r \in initCluster(t) :
                   /\ ti' = r[2]
                   /\ oldti' = o
                   /\ statements' = diff(t, o)
                   /\ next' = 1
                   /\ IF r[1] # "" THEN Fail(r[1]) ELSE err' = "" /\ pc' = "apply"
    /\ UNCHANGED <<issued, applied, id, plan, remoteOwner>>

\* Update up to the return of diff
UpdateBegin ==
    /\ pc = "idle" /\ id # ""
    /\ op' = "Update"
    /\ \E t \in Configured, hasChange \in BOOLEAN :
          /\ ownerChange' = hasChange
          /\ \/ Fail(UpdateWorkspaceClientError) /\ ti' = t /\ UNCHANGED <<oldti, statements, next>>
             \/ \E r \in initCluster(t) :
                   /\ ti' = r[2]
                   /\ IF r[1] # ""
                      THEN Fail(r[1]) /\ UNCHANGED <<oldti, statements, next>>
                      ELSE \/ Fail(GetTableError) /\ UNCHANGED <<oldti, statements, next>>
                           \/ \E o \in Remote(t) :
                                 /\ oldti' = o
                                 /\ statements' = diff(r[2], o)
                                 /\ next' = 1
                                 /\ err' = "" /\ pc' = "apply"
    /\ UNCHANGED <<issued, applied, id, plan, remoteOwner>>

\* one round of the loop of updateTable, with a failure that does not end the loop
UpdateApplyPastFailure ==
    /\ op = "Update" /\ pc = "apply" /\ next <= Len(statements)
    /\ issued' = Append(issued, Sql(statements[next]))
    /\ next' = next + 1
    /\ pc' = "apply"
    /\ \E e \in applySql(ti) :
          IF e # ""
          THEN err' = e /\ UNCHANGED applied
          ELSE applied' = Append(applied, Sql(statements[next])) /\ UNCHANGED err
    /\ UNCHANGED <<op, ti, oldti, statements, id, plan, ownerChange, remoteOwner>>

\* one round of the loop of updateTable
UpdateApply ==
    /\ op = "Update" /\ pc = "apply" /\ next <= Len(statements)
    /\ issued' = Append(issued, Sql(statements[next]))
    /\ \E e \in applySql(ti) :
          IF e # ""
          THEN Fail(e) /\ UNCHANGED <<applied, next>>
          ELSE /\ applied' = Append(applied, Sql(statements[next]))
               /\ next' = next + 1
               /\ UNCHANGED <<err, pc>>
    /\ UNCHANGED <<op, ti, oldti, statements, id, plan, ownerChange, remoteOwner>>

\* Update after updateTable returned nil
UpdateOwner ==
    /\ op = "Update" /\ pc = "apply" /\ next > Len(statements)
    /\ IF ownerChange
       THEN \/ ti.Owner = "" /\ Fail(CurrentUserError) /\ UNCHANGED <<ti, remoteOwner>>
            \/ \E owner \in {IF ti.Owner = "" THEN CurrentUser ELSE ti.Owner} :
                  /\ ti' = [ti EXCEPT !.Owner = owner]
                  /\ \/ Fail(TablesUpdateError) /\ UNCHANGED remoteOwner
                     \/ remoteOwner' = owner /\ err' = "" /\ pc' = "done"
       ELSE err' = "" /\ pc' = "done" /\ UNCHANGED <<ti, remoteOwner>>
    /\ UNCHANGED <<op, oldti, statements, issued, applied, next, id, plan, ownerChange>>

\* Delete up to the return of initCluster
DeleteBegin ==
    /\ pc = "idle" /\ id # ""
    /\ op' = "Delete"
    /\ \E t \in Configured : \E r \in initCluster(t) :
          /\ ti' = r[2]
          /\ IF r[1] # "" THEN Fail(r[1]) ELSE err' = "" /\ pc' = "deleteTable"
    /\ UNCHANGED <<oldti, statements, issued, applied, next, id, plan, ownerChange, remoteOwner>>

deleteStatement(t) ==
    <<[Fragment EXCEPT !.kw = "DROP", !.typestring = getTableTypeString(t), !.table = SQLFullName(t)]>>

DeleteTable ==
    /\ op = "Delete" /\ pc = "deleteTable"
    /\ statements' = deleteStatement(ti)
    /\ issued' = Append(issued, Sql(statements'))
    /\ \E e \in applySql(ti) :
          /\ err' = e /\ pc' = "done"
          /\ applied' = IF e = "" THEN Append(applied, Sql(statements')) ELSE applied
    /\ UNCHANGED <<op, ti, oldti, next, id, plan, ownerChange, remoteOwner>>

\* the entry point has returned; the provider waits for the next call.  A resource
\* whose Delete returned nil is gone from the state.
Return ==
    /\ pc = "done"
    /\ op' = "" /\ pc' = "idle"
    /\ ti' = BaseTable /\ oldti' = BaseTable
    /\ statements' = <<>> /\ err' = "" /\ issued' = <<>> /\ applied' = <<>> /\ next' = 0
    /\ ownerChange' = FALSE /\ remoteOwner' = ""
    /\ id' = IF op = "Delete" /\ err = "" THEN "" ELSE id
    /\ UNCHANGED plan

NextLife ==
    \/ CreateBegin \/ CreateTable \/ CreateOwner
    \/ UpdateBegin \/ UpdateApply \/ UpdateOwner
    \/ DeleteBegin \/ DeleteTable
    \/ Return

SpecLife == InitLife /\ [][NextLife]_vars

(***************************************************************************)
(* Properties of the diff                                                  *)
(***************************************************************************)
Diffed == op = "Diff" /\ pc = "done"

\* how many statements of the list satisfy P
CountOf(stmts, P(_)) == Cardinality({i \in DOMAIN stmts : P(stmts[i])})

Removed == ColumnNames(oldti.ColumnInfos) \ ColumnNames(ti.ColumnInfos)
Added == ColumnNames(ti.ColumnInfos) \ ColumnNames(oldti.ColumnInfos)

IsDrop(s) == s.kw = "DROP COLUMN IF EXISTS"
IsAdd(s) == s.kw = "ADD COLUMN"
IsColumnStatement(s) ==
    s.kw \in {"DROP COLUMN IF EXISTS", "ADD COLUMN", "RENAME COLUMN", "ALTER COLUMN COMMENT",
              "ALTER COLUMN DROP NOT NULL", "ALTER COLUMN SET NOT NULL"}

\* C1: a managed key that the previous properties hold and the desired properties
\* lack is never among the keys of the UNSET TBLPROPERTIES statement of the diff.
C1_ManagedKeyNeverUnset ==
    Diffed =>
        \A i \in DOMAIN statements :
            statements[i].kw = "UNSET TBLPROPERTIES IF EXISTS" =>
                \A k \in statements[i].keys :
                    ~(/\ sqlTableIsManagedProperty(k)
                      /\ MapHas(oldti.Properties, k)
                      /\ ~MapHas(ti.Properties, k))

\* one DROP COLUMN IF EXISTS naming the removed columns, and after it one ADD COLUMN
\* for each new column, FIRST at desired index 0 and otherwise AFTER the column that
\* precedes it in the desired list
DropThenAdd ==
    /\ CountOf(statements, IsDrop) = 1
    /\ CountOf(statements, IsAdd) = Cardinality(Added)
    /\ \E d \in DOMAIN statements :
          /\ IsDrop(statements[d])
          /\ statements[d].names = {Backticked(n) : n \in Removed}
          /\ \A i \in DOMAIN ti.ColumnInfos :
                ti.ColumnInfos[i].Name \in Added =>
                    \E j \in (d + 1)..Len(statements) :
                        /\ IsAdd(statements[j])
                        /\ statements[j].col.name = Backticked(ti.ColumnInfos[i].Name)
                        /\ IF i = 1
                           THEN statements[j].position = "FIRST"
                           ELSE /\ statements[j].position = "AFTER"
                                /\ statements[j].after = ti.ColumnInfos[i - 1].Name
          \* the ADD COLUMN statements follow the order of the desired list
          /\ \A j1, j2 \in DOMAIN statements :
                (IsAdd(statements[j1]) /\ IsAdd(statements[j2]) /\ j1 < j2) =>
                    \E i1, i2 \in DOMAIN ti.ColumnInfos :
                        /\ i1 < i2
                        /\ statements[j1].col.name = Backticked(ti.ColumnInfos[i1].Name)
                        /\ statements[j2].col.name = Backticked(ti.ColumnInfos[i2].Name)

\* C2 as stated: whenever some previous column is removed and some desired column is
\* new, lists of equal length included, the diff emits the DROP COLUMN IF EXISTS and
\* then the ADD COLUMN statements.
C2_DropThenAddAnyLength ==
    (Diffed /\ Removed # {} /\ Added # {}) => DropThenAdd

\* C2 as amended: the same, for column lists of different lengths.
C2_DropThenAddWhenCountsDiffer ==
    (Diffed /\ Removed # {} /\ Added # {} /\ Len(ti.ColumnInfos) # Len(oldti.ColumnInfos))
        => DropThenAdd

C2_Witness ==
    /\ Diffed /\ Removed # {} /\ Added # {}
    /\ Len(ti.ColumnInfos) = 2 /\ Len(oldti.ColumnInfos) = 1
    /\ ti.ColumnInfos[2].Name \in Added
    /\ ti.ColumnInfos[1].Name \in Added
    /\ Len(statements) = 3

\* C3: the diff of a description against itself is the empty list, with no error.
C3_DiffOfSelfIsEmpty ==
    (Diffed /\ ti = oldti) => (statements = <<>> /\ err = "")

C3_Witness ==
    /\ Diffed /\ ti = oldti
    /\ ti.TableType = "EXTERNAL"
    /\ ti.StorageLocation # "" /\ ti.Properties.kv # {} /\ ti.ColumnInfos # <<>>
    /\ ti.Comment # NoComment /\ ti.ClusterKeys.elems # <<>>

\* C10: with equal column counts the diff emits, per position, a RENAME COLUMN old
\* TO new exactly when the names differ, an ALTER COLUMN COMMENT exactly when the
\* comments differ, and an ALTER COLUMN DROP NOT NULL (now nullable) or SET NOT NULL
\* (now not nullable) exactly when the nullability differs, and no other column
\* statement; a difference of type produces none.
C10_PositionalColumnStatements ==
    (Diffed /\ Len(ti.ColumnInfos) = Len(oldti.ColumnInfos)) =>
        LET new == ti.ColumnInfos
            old == oldti.ColumnInfos
            Differences(i) == (IF new[i].Name # old[i].Name THEN 1 ELSE 0)
                              + (IF new[i].Comment # old[i].Comment THEN 1 ELSE 0)
                              + (IF new[i].Nullable # old[i].Nullable THEN 1 ELSE 0)
            \* the column statements that name the column at position i
            AtPosition(i) == {j \in DOMAIN statements :
                                /\ IsColumnStatement(statements[j])
                                /\ IF statements[j].kw = "RENAME COLUMN"
                                   THEN statements[j].to = Backticked(new[i].Name)
                                   ELSE statements[j].column = Backticked(new[i].Name)}
        IN  /\ \A j \in DOMAIN statements :
                  IsColumnStatement(statements[j]) => \E i \in DOMAIN new : j \in AtPosition(i)
            /\ \A i \in DOMAIN new :
                  /\ Cardinality(AtPosition(i)) = Differences(i)
                  /\ (new[i].Name # old[i].Name) <=>
                        \E j \in AtPosition(i) :
                            /\ statements[j].kw = "RENAME COLUMN"
                            /\ statements[j].column = Backticked(old[i].Name)
                  /\ (new[i].Comment # old[i].Comment) <=>
                        \E j \in AtPosition(i) :
                            /\ statements[j].kw = "ALTER COLUMN COMMENT"
                            /\ statements[j].text = parseComment(new[i].Comment)
                  /\ (new[i].Nullable # old[i].Nullable /\ new[i].Nullable) <=>
                        \E j \in AtPosition(i) : statements[j].kw = "ALTER COLUMN DROP NOT NULL"
                  /\ (new[i].Nullable # old[i].Nullable /\ ~new[i].Nullable) <=>
                        \E j \in AtPosition(i) : statements[j].kw = "ALTER COLUMN SET NOT NULL"

\* a rename of one column whose type is spelled differently: one RENAME COLUMN only
C10_Witness ==
    /\ Diffed
    /\ Len(ti.ColumnInfos) = 1 /\ Len(oldti.ColumnInfos) = 1
    /\ ti.ColumnInfos[1].Name = "b" /\ oldti.ColumnInfos[1].Name = "a"
    /\ ti.ColumnInfos[1].Type = TypeString /\ oldti.ColumnInfos[1].Type = TypeInt
    /\ ti.ColumnInfos[1].Comment = oldti.ColumnInfos[1].Comment
    /\ ti.ColumnInfos[1].Nullable = oldti.ColumnInfos[1].Nullable
    /\ Len(statements) = 1
    /\ statements[1].kw = "RENAME COLUMN"
    /\ statements[1].column = Backticked("a") /\ statements[1].to = Backticked("b")

(***************************************************************************)
(* Properties of the CREATE statement                                      *)
(***************************************************************************)
Built == op = "BuildCreate" /\ pc = "done"

NonManaged(m) == {p \in m.kv : p[1] \notin managedProps}

\* the clause kw lists exactly the pairs kv, and is absent when there are none
ClauseListsExactly(kw, kv) ==
    IF kv = {}
    THEN \A i \in DOMAIN statements : statements[i].kw # kw
    ELSE /\ Cardinality({i \in DOMAIN statements : statements[i].kw = kw}) = 1
         /\ \A i \in DOMAIN statements : statements[i].kw = kw => statements[i].kv = kv

\* C4: in the CREATE statement the TBLPROPERTIES clause, and likewise the OPTIONS
\* clause, lists exactly the non-managed pairs of the desired map and is omitted
\* whenever that list is empty, also when the map holds managed keys only.
C4_ClauseOmittedWhenNothingToList ==
    Built =>
        /\ ClauseListsExactly("TBLPROPERTIES", NonManaged(ti.Properties))
        /\ ClauseListsExactly("OPTIONS", NonManaged(ti.Options))

(***************************************************************************)
(* CustomizeDiff as a function of the old and the new side of the diff     *)
(***************************************************************************)
TypeSpellings ==
    {TypeInt, TypeINTEGER, TypeString,
     <<"i", "n", "t", "e", "g", "e", "r">>,
     <<"l", "o", "n", "g">>,
     <<"b", "i", "g", "i", "n", "t">>,
     <<"r", "e", "a", "l">>,
     <<"f", "l", "o", "a", "t">>,
     <<"s", "h", "o", "r", "t">>,
     <<"s", "m", "a", "l", "l", "i", "n", "t">>,
     <<"b", "y", "t", "e">>,
     <<"t", "i", "n", "y", "i", "n", "t">>,
     <<"d", "e", "c", "i", "m", "a", "l">>,
     <<"d", "e", "c">>,
     <<"n", "u", "m", "e", "r", "i", "c">>,
     <<"d", "e", "c", "i", "m", "a", "l", "(", "1", "0", ",", "0", ")">>,
     <<"L", "o", "n", "g">>,
     <<"D", "E", "C">>}

\* the columns of the state: three combinations of type, nullability and comment
StateColumns ==
    {Column(n, a[1], a[2], a[3]) :
        n \in ColNames,
        a \in {<<TypeInt, TRUE, NoComment>>, <<TypeString, FALSE, NoComment>>,
               <<TypeInt, TRUE, QuotedComment>>}}

\* the columns of the configuration: each attribute changed alone, from <<int, nullable, no comment>>
PlannedColumns ==
    {Column(n, a[1], a[2], a[3]) :
        n \in ColNames,
        a \in {<<TypeInt, TRUE, NoComment>>, <<TypeINTEGER, TRUE, NoComment>>,
               <<TypeString, TRUE, NoComment>>, <<TypeInt, FALSE, NoComment>>,
               <<TypeInt, TRUE, QuotedComment>>}}

OptionPathKey == <<"option", "path">>
OptionKey == <<"header">>
PlanKeys == {ManagedKey, UserKey, OptionPathKey, OptionKey}
PlanMaps == {MakeMap({<<k, "1">> : k \in ks}) : ks \in SUBSET PlanKeys}

InitPlan ==
    /\ op = "" /\ pc = "ready" /\ statements = <<>> /\ Idle
    /\ \/ /\ oldti \in {[BaseTable EXCEPT !.ColumnInfos = l] : l \in ColumnLists(StateColumns)}
          /\ ti \in {[BaseTable EXCEPT !.ColumnInfos = l] : l \in ColumnLists(PlannedColumns)}
       \/ \E t1, t2 \in TypeSpellings :
             /\ oldti = [BaseTable EXCEPT !.ColumnInfos = <<Column("a", t1, TRUE, NoComment)>>]
             /\ ti \in {[BaseTable EXCEPT !.ColumnInfos = l] :
                           l \in {<<Column("a", t2, TRUE, NoComment)>>,
                                  <<Column("a", t2, TRUE, NoComment), Column("b", TypeInt, TRUE, NoComment)>>}}
       \/ \E k \in {BaseTable, BaseView}, c1, c2 \in Comments :
             /\ oldti \in {[k EXCEPT !.ColumnInfos = OneColumn, !.Comment = c1,
                                      !.Properties = p, !.Options = o] :
                              p \in PlanMaps, o \in {MakeMap({}), MakeMap({<<OptionKey, "1">>})}}
             /\ ti \in {[k EXCEPT !.ColumnInfos = OneColumn, !.Comment = c2, !.Properties = p] :
                           p \in PlanMaps}

CustomizeDiff ==
    /\ pc = "ready"
    /\ op' = "CustomizeDiff"
    /\ \E r \in {CustomizeDiffResult(oldti, ti)} :
          /\ err' = r[1]
          /\ plan' = r[2]
    /\ pc' = "done"
    /\ UNCHANGED <<ti, oldti, statements, issued, applied, next, id, ownerChange, remoteOwner>>

NextPlan == CustomizeDiff

SpecPlan == InitPlan /\ [][NextPlan]_vars

(***************************************************************************)
(* Properties of the validators                                            *)
(***************************************************************************)
Planned == op = "CustomizeDiff" /\ pc = "done"

\* the normal form of a type: lower case, then integer is int, long is bigint, real is
\* float, short is smallint, byte is tinyint, and decimal, dec and numeric are decimal(10,0)
NormalForm(type) ==
    LET l == ToLower(type) IN
      CASE l = <<"i", "n", "t", "e", "g", "e", "r">> -> <<"i", "n", "t">>
        [] l = <<"l", "o", "n", "g">> -> <<"b", "i", "g", "i", "n", "t">>
        [] l = <<"r", "e", "a", "l">> -> <<"f", "l", "o", "a", "t">>
        [] l = <<"s", "h", "o", "r", "t">> -> <<"s", "m", "a", "l", "l", "i", "n", "t">>
        [] l = <<"b", "y", "t", "e">> -> <<"t", "i", "n", "y", "i", "n", "t">>
        [] l = <<"d", "e", "c", "i", "m", "a", "l">> -> <<"d", "e", "c", "i", "m", "a", "l", "(", "1", "0", ",", "0", ")">>
        [] l = <<"d", "e", "c">> -> <<"d", "e", "c", "i", "m", "a", "l", "(", "1", "0", ",", "0", ")">>
        [] l = <<"n", "u", "m", "e", "r", "i", "c">> -> <<"d", "e", "c", "i", "m", "a", "l", "(", "1", "0", ",", "0", ")">>
        [] OTHER -> l

TypeBigint == <<"b", "i", "g", "i", "n", "t">>

\* C8: with equal column counts the validation fails with the type-change error
\* exactly when the normal forms of the types differ at some position.
C8_TypeChangeRejectedIffNormalFormsDiffer ==
    (Planned /\ Len(oldti.ColumnInfos) = Len(ti.ColumnInfos)) =>
        /\ err \in {"", TypeChangeError}
        /\ err = TypeChangeError <=>
                \E i \in DOMAIN ti.ColumnInfos :
                    NormalForm(oldti.ColumnInfos[i].Type) # NormalForm(ti.ColumnInfos[i].Type)

\* previous [a(int)], desired [a(string)] is rejected
C8_Witness ==
    /\ Planned
    /\ Len(oldti.ColumnInfos) = 1 /\ Len(ti.ColumnInfos) = 1
    /\ oldti.ColumnInfos[1].Name = "a" /\ ti.ColumnInfos[1].Name = "a"
    /\ oldti.ColumnInfos[1].Type = TypeInt /\ ti.ColumnInfos[1].Type = TypeString
    /\ err = TypeChangeError

\* C9: with different column counts the validation fails with the mixed-change
\* error exactly when some column name of both lists differs in the normal form of its
\* type, in nullability or in comment; a name of one list only never makes it fail.
C9_MixedChangeRejectedIffSharedColumnDiffers ==
    (Planned /\ Len(oldti.ColumnInfos) # Len(ti.ColumnInfos)) =>
        /\ err \in {"", MixedChangeError}
        /\ err = MixedChangeError <=>
                \E i \in DOMAIN oldti.ColumnInfos, j \in DOMAIN ti.ColumnInfos :
                    /\ oldti.ColumnInfos[i].Name = ti.ColumnInfos[j].Name
                    /\ \/ NormalForm(oldti.ColumnInfos[i].Type) # NormalForm(ti.ColumnInfos[j].Type)
                       \/ oldti.ColumnInfos[i].Nullable # ti.ColumnInfos[j].Nullable
                       \/ oldti.ColumnInfos[i].Comment # ti.ColumnInfos[j].Comment

\* previous [a(int)], desired [a(bigint), b(int)] is rejected
C9_Witness ==
    /\ Planned
    /\ Len(oldti.ColumnInfos) = 1 /\ Len(ti.ColumnInfos) = 2
    /\ oldti.ColumnInfos[1].Name = "a" /\ ti.ColumnInfos[1].Name = "a" /\ ti.ColumnInfos[2].Name = "b"
    /\ oldti.ColumnInfos[1].Type = TypeInt /\ ti.ColumnInfos[1].Type = TypeBigint
    /\ oldti.ColumnInfos[1].Nullable = ti.ColumnInfos[1].Nullable
    /\ oldti.ColumnInfos[1].Comment = ti.ColumnInfos[1].Comment
    /\ err = MixedChangeError

(***************************************************************************)
(* Properties of Create, Update and Delete                                 *)
(***************************************************************************)
IsPrefix(s, t) == Len(s) <= Len(t) /\ s = SubSeq(t, 1, Len(s))

StatementTexts == [i \in DOMAIN statements |-> Sql(statements[i])]

\* the statements handed to the executor are the first ones of the diff, in its
\* order; all of them succeeded but possibly the last, and then the update failed
InListOrder ==
    op = "Update" =>
        /\ IsPrefix(issued, StatementTexts)
        /\ IsPrefix(applied, issued)
        /\ Len(issued) - Len(applied) \in {0, 1}
        /\ Len(applied) < Len(issued) => (pc = "done" /\ err \in ApplySqlErrors)

\* a step of an update hands at most the next statement of the list to the executor,
\* takes nothing back, and hands over nothing once the update has failed
OneAtATime ==
    (op = "Update" /\ op' = "Update") =>
        /\ \/ issued' = issued /\ applied' = applied
           \/ /\ err = ""
              /\ Len(issued) < Len(statements)
              /\ issued' = Append(issued, Sql(statements[Len(issued) + 1]))
              /\ IsPrefix(applied, applied')
        /\ err # "" => (err' = err /\ issued' = issued /\ applied' = applied)

\* C5: an update executes the statements of the diff strictly in list order, one at
\* a time, each at most once; when one fails the update returns that error, no later
\* statement is executed, and what was executed before stays applied.
C5_SequentialUntilFirstFailure == [](InListOrder) /\ [][OneAtATime]_vars

\* the second of four statements failed: one applied, two never executed
C5_Witness ==
    /\ op = "Update" /\ pc = "done" /\ err \in ApplySqlErrors
    /\ Len(statements) = 4 /\ Len(issued) = 2 /\ Len(applied) = 1
    /\ applied[1] = Sql(statements[1])

\* C6: when initCluster fails, Create, Update and Delete return its error with no
\* statement generated or executed, and Create leaves the identifier unset.
C6_NoStatementAfterProvisioningFailure ==
    (op \in {"Create", "Update", "Delete"} /\ err \in InitClusterErrors) =>
        /\ pc = "done"
        /\ statements = <<>> /\ issued = <<>> /\ applied = <<>>
        /\ remoteOwner = ""
        /\ op = "Create" => id = ""

\* the default cluster that replaced the missing one failed to start, in an Update
C6_Witness ==
    /\ op = "Update" /\ pc = "done" /\ err = StartClusterError
    /\ ti.ClusterID = DefaultCluster
    /\ statements = <<>> /\ issued = <<>>

\* C7: Create sets the identifier, the fully-qualified name, only after the CREATE
\* statement succeeded and, with an owner configured, after the owner was updated;
\* on a failure before that it stays unset.
C7_IdentifierOnlyOnSuccess ==
    op = "Create" =>
        /\ id # "" <=> (pc = "done" /\ err = "")
        /\ id # "" =>
              /\ id = ti.CatalogName \o "." \o ti.SchemaName \o "." \o ti.Name
              /\ applied = <<Sql(buildTableCreateStatement(ti))>>
              /\ ti.Owner # "" => remoteOwner = ti.Owner

C7_Witness ==
    /\ op = "Create" /\ pc = "done" /\ err = ""
    /\ ti.Owner = "alice" /\ remoteOwner = "alice"
    /\ id = "main.s.t"
    /\ Len(applied) = 1

(***************************************************************************)
(* The literal formatter applied to a comment and then to its own output   *)
(***************************************************************************)
MaxCommentLen == 4

CommentChars == {"\\", "'", "x"}

RECURSIVE TextsOfLen(_)
TextsOfLen(n) ==
    IF n = 0 THEN {<<>>}
    ELSE {Append(t, c) : t \in TextsOfLen(n - 1), c \in CommentChars}

Texts == UNION {TextsOfLen(n) : n \in 0..MaxCommentLen}

InitFormat ==
    /\ op = "" /\ pc = "ready" /\ statements = <<>> /\ Idle
    /\ ti \in {[BaseTable EXCEPT !.Comment = t] : t \in Texts}
    /\ oldti = BaseTable

\* parseComment of the comment, and then of what it returned
FormatComment ==
    /\ pc \in {"ready", "formatted"}
    /\ op' = "parseComment"
    /\ statements' = Append(statements,
                            parseComment(IF statements = <<>> THEN ti.Comment
                                         ELSE statements[Len(statements)]))
    /\ pc' = IF pc = "ready" THEN "formatted" ELSE "done"
    /\ UNCHANGED <<ti, oldti, err, issued, applied, next, id, plan, ownerChange, remoteOwner>>

NextFormat == FormatComment

SpecFormat == InitFormat /\ [][NextFormat]_vars

EveryQuoteEscaped(t) == \A i \in DOMAIN t : t[i] = "'" => (i > 1 /\ t[i - 1] = "\\")

\* C11: formatting the formatter's own output gives the same text as formatting the
\* comment once, and in the output every single quote follows a backslash.
C11_FormatterIdempotentOnItsOutput ==
    op = "parseComment" =>
        /\ \A i \in DOMAIN statements : EveryQuoteEscaped(statements[i])
        /\ Len(statements) = 2 => statements[2] = statements[1]

\* a comment with a bare and an escaped quote, formatted twice
C11_Witness ==
    /\ op = "parseComment" /\ pc = "done"
    /\ ti.Comment = <<"'", "x", "\\", "'">>
    /\ statements = << <<"\\", "'", "x", "\\", "'">>, <<"\\", "'", "x", "\\", "'">> >>

(***************************************************************************)
(* The column statements executed against the previous table               *)
(***************************************************************************)
\* the ordered column names of a column list
ColumnNameList(cols) == [i \in 1..Len(cols) |-> cols[i].Name]

UniqueNames(cols) == Cardinality(ColumnNames(cols)) = Len(cols)

TableOf(cols) == [ok |-> TRUE, cols |-> ColumnNameList(cols)]

Failed(table) == [table EXCEPT !.ok = FALSE]

RECURSIVE Without(_, _)
Without(names, dropped) ==
    IF names = <<>> THEN <<>>
    ELSE (IF Backticked(Head(names)) \in dropped THEN <<>> ELSE <<Head(names)>>)
         \o Without(Tail(names), dropped)

InsertAfter(names, p, n) ==
    LET i == CHOOSE j \in DOMAIN names : names[j] = p
    IN  SubSeq(names, 1, i) \o <<n>> \o SubSeq(names, i + 1, Len(names))

Present(table, n) == \E j \in DOMAIN table.cols : table.cols[j] = n

\* one statement against a table: DROP COLUMN removes the named columns, ADD COLUMN
\* inserts first or after a column that is there, RENAME COLUMN needs the new name unused
Execute(table, stmt) ==
    IF ~table.ok THEN table
    ELSE IF stmt.kw = "DROP COLUMN IF EXISTS"
    THEN [table EXCEPT !.cols = Without(table.cols, stmt.names)]
    ELSE IF stmt.kw = "ADD COLUMN"
    THEN LET n == stmt.col.name.backticked
         IN  IF Present(table, n) THEN Failed(table)
             ELSE IF stmt.position = "FIRST" THEN [table EXCEPT !.cols = <<n>> \o table.cols]
             ELSE IF Present(table, stmt.after)
                  THEN [table EXCEPT !.cols = InsertAfter(table.cols, stmt.after, n)]
                  ELSE Failed(table)
    ELSE IF stmt.kw = "RENAME COLUMN"
    THEN LET from == stmt.column.backticked
             to == stmt.to.backticked
         IN  IF Present(table, from) /\ ~Present(table, to)
             THEN [table EXCEPT !.cols = [j \in DOMAIN table.cols |->
                                            IF table.cols[j] = from THEN to ELSE table.cols[j]]]
             ELSE Failed(table)
    ELSE table

\* the table after the first n statements
RECURSIVE ExecuteFirst(_, _, _)
ExecuteFirst(table, stmts, n) ==
    IF n = 0 THEN table
    ELSE Execute(ExecuteFirst(table, stmts, n - 1), stmts[n])

ExecuteAll(table, stmts) == ExecuteFirst(table, stmts, Len(stmts))

\* C12: for descriptions of one kind with unique column names that the validators
\* accept, the statements of the diff executed in order against the previous table all
\* succeed and leave the desired ordered list of column names.
C12_StatementsReachDesiredColumns ==
    (/\ Diffed
     /\ ti.TableType = oldti.TableType
     /\ UniqueNames(ti.ColumnInfos) /\ UniqueNames(oldti.ColumnInfos)
     /\ columnChangesCustomizeDiff(oldti.ColumnInfos, ti.ColumnInfos) = "")
    => LET after == ExecuteAll(TableOf(oldti.ColumnInfos), statements)
       IN  after.ok /\ after.cols = ColumnNameList(ti.ColumnInfos)

IsAddAfter(s) == IsAdd(s) /\ s.position = "AFTER"

\* C14: with column lists of different lengths and unique names, the column named after
\* AFTER is in the table when the statement is executed: it is a previous column that
\* no DROP names, or a new column whose own ADD COLUMN comes earlier in the list.
C14_AfterNamesColumnInTable ==
    (/\ Diffed
     /\ Len(ti.ColumnInfos) # Len(oldti.ColumnInfos)
     /\ UniqueNames(ti.ColumnInfos) /\ UniqueNames(oldti.ColumnInfos))
    => \A i \in DOMAIN statements :
          IsAddAfter(statements[i]) =>
              LET p == statements[i].after
                  before == ExecuteFirst(TableOf(oldti.ColumnInfos), statements, i - 1)
              IN  /\ before.ok
                  /\ Present(before, p)
                  /\ \/ /\ p \in ColumnNames(oldti.ColumnInfos)
                        /\ \A j \in DOMAIN statements :
                              IsDrop(statements[j]) => Backticked(p) \notin statements[j].names
                     \/ /\ p \notin ColumnNames(oldti.ColumnInfos)
                        /\ \E j \in 1..(i - 1) :
                              IsAdd(statements[j]) /\ statements[j].col.name = Backticked(p)

\* previous [c], desired [a, b]: c is dropped, a is added first and b after the new a
C14_Witness ==
    /\ Diffed
    /\ ColumnNameList(oldti.ColumnInfos) = <<"c">>
    /\ ColumnNameList(ti.ColumnInfos) = <<"a", "b">>
    /\ Len(statements) = 3
    /\ IsDrop(statements[1]) /\ statements[1].names = {Backticked("c")}
    /\ IsAdd(statements[2]) /\ statements[2].position = "FIRST"
    /\ IsAddAfter(statements[3]) /\ statements[3].after = "a"
    /\ ExecuteAll(TableOf(oldti.ColumnInfos), statements) = [ok |-> TRUE, cols |-> <<"a", "b">>]

(***************************************************************************)
(* The order of the statements of the diff                                 *)
(***************************************************************************)
IsUnset(s) == s.kw = "UNSET TBLPROPERTIES IF EXISTS"
IsSet(s) == s.kw = "SET TBLPROPERTIES"

\* the place of a statement in the order: 0 for a statement that has none
Place(s) ==
    IF s.kw = "AS" /\ s.typestring = "VIEW" /\ ti.TableType = "VIEW" THEN 1
    ELSE IF s.kw = "SET LOCATION" /\ ti.TableType # "VIEW" THEN 1
    ELSE IF s.kw = "CLUSTER BY" /\ ti.TableType # "VIEW" THEN 2
    ELSE IF s.kw = "COMMENT ON" THEN 3
    ELSE IF IsUnset(s) THEN 4
    ELSE IF IsSet(s) THEN 5
    ELSE IF IsColumnStatement(s) THEN 6
    ELSE 0

OnlyOptionsDiffer == ti.Options # oldti.Options /\ [ti EXCEPT !.Options = oldti.Options] = oldti

\* C13: the statements come in the order ALTER VIEW AS (views) or SET LOCATION, CLUSTER BY
\* (tables), then COMMENT ON, then UNSET TBLPROPERTIES, then SET TBLPROPERTIES, then the
\* column statements, each of the first five at most once; UNSET appears only when a
\* previous key is missing from desired and SET is the statement right after it; there is
\* exactly one SET whenever the property maps differ; a change of options alone gives no
\* statement.
C13_StatementOrder ==
    Diffed =>
        /\ \A i \in DOMAIN statements : Place(statements[i]) > 0
        /\ \A i, j \in DOMAIN statements :
              i < j => /\ Place(statements[i]) <= Place(statements[j])
                       /\ Place(statements[j]) < 6 => Place(statements[i]) < Place(statements[j])
        /\ \A i \in DOMAIN statements :
              IsUnset(statements[i]) =>
                  /\ MapKeys(oldti.Properties) \ MapKeys(ti.Properties) # {}
                  /\ i + 1 \in DOMAIN statements /\ IsSet(statements[i + 1])
        /\ (ti.Properties # oldti.Properties) => CountOf(statements, IsSet) = 1
        /\ OnlyOptionsDiffer => statements = <<>>

\* a table whose location, cluster keys, comment, properties (one key removed) and
\* columns (one added) all change: six statements, one of each place
C13_Witness ==
    /\ Diffed
    /\ ti.Options = oldti.Options
    /\ MapKeys(oldti.Properties) = {UserKey} /\ ti.Properties = MakeMap({})
    /\ [i \in DOMAIN statements |-> statements[i].kw] =
           <<"SET LOCATION", "CLUSTER BY", "COMMENT ON", "UNSET TBLPROPERTIES IF EXISTS",
             "SET TBLPROPERTIES", "ADD COLUMN">>
    /\ statements[5].kv = {}
====
